---- MODULE Spec2Model ----
(***************************************************************************)
(* FSQueue, the deferred commit queue of                                   *)
(* typescript-cli/configuration/FileSystemQueue.ts.                        *)
(*                                                                         *)
(* JavaScript runs one job at a time, so every action below is one         *)
(* synchronous run of code: a public method up to its first await, or the  *)
(* continuation that runs when an awaited promise has settled.  Other      *)
(* callers' code may run between any two such runs.                        *)
(***************************************************************************)
EXTENDS Integers, Sequences, FiniteSets, TLC

(* ---- bounds of the model ---- *)
MaxRequirements == 2
MaxCommits == 2
MaxSuspend == 2
MaxEntries == 2

(* ---- inputs ---- *)
Labels == {"lint"}
BaseDirectory == <<"root">>
InitialRelatives == {<<>>, <<"sub">>}
CallerBaseDirectories == {<<"root">>, <<"elsewhere">>}
RelativePaths == {<<"sub">>, <<"cfg.json">>}
FormatVersions == {"1.0.0", "1.0.1"}

(* ---- error messages ---- *)
AlreadyRequestedError == "You've already requested to write the configuration!"
RequiredTasksError == "You have required tasks to execute!"
AlreadyStartedError == "I have already started running tasks!"
SymbolToStringError == "TypeError: Cannot convert a Symbol value to a string"
WriteFileError == "fs.writeFile rejected"

VARIABLES
  requiredToCallOnce,  \* #requiredToCallOnce
  symbolCount,         \* how many Symbol(label) values addRequirement made
  tasks,               \* #tasks, in insertion order
  started,             \* #started
  hasCommitted,        \* #hasCommitted
  enableWarnings,      \* #enableWarnings
  pathResolver,        \* #pathResolver, the queue's private clone
  callerResolver,      \* the resolver the caller passed to the constructor
  document,            \* the caller's configuration object
  commits,             \* the commit() calls that passed their checks
  executions,          \* the task bodies started so far, in start order
  warnings,            \* what console.warn was called with
  suspended,           \* suspendWarnings callbacks in progress
  lastCall,            \* the step just taken and how it ended
  jsonValue,           \* a value handed to ConfigFileFormat.isJSON / fromJSON
  jsonStep,            \* how far the caller has taken jsonValue
  jsonConfig,          \* what ConfigFileFormat.fromJSON returned
  jsonOutput           \* what toJSON() of that configuration returned

queueVars == <<requiredToCallOnce, symbolCount, tasks, started, hasCommitted,
               enableWarnings, pathResolver, callerResolver, document, commits,
               executions, warnings, suspended, lastCall>>

jsonVars == <<jsonValue, jsonStep, jsonConfig, jsonOutput>>

vars == <<queueVars, jsonVars>>

(* ---- PathResolver ---- *)
PathResolve(base, relative) == base \o relative

GetPath(resolver, useAbsolute) ==
  IF useAbsolute THEN PathResolve(resolver.base, resolver.relative)
  ELSE resolver.relative

SetPath(resolver, useAbsolute, value) ==
  IF useAbsolute THEN [resolver EXCEPT !.base = value]
  ELSE [resolver EXCEPT !.relative = value]

Clone(resolver) == [base |-> resolver.base, relative |-> resolver.relative]

(* ---- requirements ---- *)
WriteConfigurationMarker == [kind |-> "string", label |-> "writeConfiguration", id |-> 0]

(* addRequirement taking its symbol from the registry, Symbol.for(label): *)
(* one symbol per label                                                   *)
SymbolFromRegistry(label, n) == [kind |-> "symbol", label |-> label, id |-> 1]

(* Symbol(label), the n-th symbol made: equal to no other value *)
SymbolFor(label, n) == [kind |-> "symbol", label |-> label, id |-> n]

(* JSON.stringify(config, null, 2) + "\n", as the pieces of text it joins *)
Stringify(config) ==
  <<"{", "\n", "  ", "\"formatVersion\"", ": ", "\"", config.formatVersion, "\"",
    "\n", "}", "\n">>

Result(op, outcome) == [op |-> op, outcome |-> outcome]

Warning(kind, text, context) == [kind |-> kind, text |-> text, context |-> context]

NoContext == [command |-> "", relativePath |-> <<>>, contents |-> <<>>]

(* ---- JSON values ---- *)

Str(string) == [type |-> "string", value |-> string]

Arr(items) == [type |-> "array", items |-> items]

Obj(entries) == [type |-> "object", entries |-> entries]

Member(key, value) == [key |-> key, value |-> value]

NoValue == [type |-> "undefined"]

KeysOf(entries) == {entries[i].key : i \in 1..Len(entries)}

HasKey(object, key) == key \in KeysOf(object.entries)

Get(object, key) ==
  object.entries[CHOOSE i \in 1..Len(object.entries) : object.entries[i].key = key].value

IsStringArray(value) ==
  /\ value.type = "array"
  /\ \A i \in 1..Len(value.items) : value.items[i].type = "string"

Strings(array) == [i \in 1..Len(array.items) |-> array.items[i].value]

(* the elements of a list in the order of their first occurrence *)
RECURSIVE InsertionOrder(_)
InsertionOrder(list) ==
  IF list = <<>> THEN <<>>
  ELSE LET front == InsertionOrder(SubSeq(list, 1, Len(list) - 1))
           last == list[Len(list)]
       IN IF \E i \in 1..Len(front) : front[i] = last THEN front
          ELSE Append(front, last)

(* ---- the entities of the configuration document ---- *)

StringSetIsJSON(value) == IsStringArray(value)

StringSetFromJSON(value) == InsertionOrder(Strings(value))

StringSetToJSON(set) == Arr([i \in 1..Len(set) |-> Str(set[i])])

FileIsJSON(value) == value.type = "string"

FileFromJSON(resolver, value) == [base |-> resolver.base, path |-> value.value]

FileToJSON(file) == Str(file.path)

IntegrationFields == {"vanillaTag", "sourceKeys", "patchKeys", "targetDirectory"}

IntegrationIsJSON(value) ==
  /\ value.type = "object"
  /\ KeysOf(value.entries) = IntegrationFields
  /\ Get(value, "vanillaTag").type = "string"
  /\ IsStringArray(Get(value, "sourceKeys"))
  /\ IsStringArray(Get(value, "patchKeys"))
  /\ Get(value, "targetDirectory").type = "string"

IntegrationFromJSON(value) ==
  [vanillaTag |-> Get(value, "vanillaTag").value,
   sourceKeys |-> Strings(Get(value, "sourceKeys")),
   patchKeys |-> Strings(Get(value, "patchKeys")),
   targetDirectory |-> Get(value, "targetDirectory").value]

IntegrationToJSON(integration) ==
  Obj(<<Member("vanillaTag", Str(integration.vanillaTag)),
        Member("sourceKeys", Arr([i \in 1..Len(integration.sourceKeys)
                                    |-> Str(integration.sourceKeys[i])])),
        Member("patchKeys", Arr([i \in 1..Len(integration.patchKeys)
                                   |-> Str(integration.patchKeys[i])])),
        Member("targetDirectory", Str(integration.targetDirectory))>>)

ProjectFields == {"integrationKey", "mozconfigKey", "appDirKey"}

ProjectIsJSON(value) ==
  /\ value.type = "object"
  /\ KeysOf(value.entries) = ProjectFields
  /\ \A field \in ProjectFields : Get(value, field).type = "string"

ProjectFromJSON(value) ==
  [integrationKey |-> Get(value, "integrationKey").value,
   mozconfigKey |-> Get(value, "mozconfigKey").value,
   appDirKey |-> Get(value, "appDirKey").value]

ProjectToJSON(project) ==
  Obj(<<Member("integrationKey", Str(project.integrationKey)),
        Member("mozconfigKey", Str(project.mozconfigKey)),
        Member("appDirKey", Str(project.appDirKey))>>)

(* ---- ConfigFileFormat ---- *)

FormatVersion == "1.0.0"

MappingFields == <<"sources", "patches", "mozconfigs", "integrations", "projects">>

TopLevelFields == {"formatVersion"} \cup {MappingFields[i] : i \in 1..Len(MappingFields)}

EntityIsJSON(field, value) ==
  CASE field = "sources" -> StringSetIsJSON(value)
    [] field \in {"patches", "mozconfigs"} -> FileIsJSON(value)
    [] field = "integrations" -> IntegrationIsJSON(value)
    [] field = "projects" -> ProjectIsJSON(value)

MappingIsJSON(field, value) ==
  /\ value.type = "object"
  /\ \A i \in 1..Len(value.entries) : EntityIsJSON(field, value.entries[i].value)

(* ConfigFileFormat.blank() *)
Blank ==
  Obj(<<Member("formatVersion", Str(FormatVersion)),
        Member("sources", Obj(<<>>)),
        Member("patches", Obj(<<>>)),
        Member("mozconfigs", Obj(<<>>)),
        Member("integrations", Obj(<<>>)),
        Member("projects", Obj(<<>>))>>)

(* isJSON accepting a document that lacks some of its fields *)
IsJSONLenient(value) ==
  /\ value.type = "object"
  /\ KeysOf(value.entries) \subseteq TopLevelFields
  /\ HasKey(value, "formatVersion") => Get(value, "formatVersion") = Str(FormatVersion)
  /\ \A i \in 1..Len(MappingFields) :
       HasKey(value, MappingFields[i])
         => MappingIsJSON(MappingFields[i], Get(value, MappingFields[i]))

(* ConfigFileFormat.isJSON(value) *)
IsJSON(value) ==
  /\ value.type = "object"
  /\ KeysOf(value.entries) = TopLevelFields
  /\ Get(value, "formatVersion") = Str(FormatVersion)
  /\ \A i \in 1..Len(MappingFields) :
       MappingIsJSON(MappingFields[i], Get(value, MappingFields[i]))

(* a mapping built by one map.set(key, entity) per entry of the object, in *)
(* the order the object lists them                                         *)
EntityFromJSON(field, resolver, value) ==
  CASE field = "sources" -> StringSetFromJSON(value)
    [] field \in {"patches", "mozconfigs"} -> FileFromJSON(Clone(resolver), value)
    [] field = "integrations" -> IntegrationFromJSON(value)
    [] field = "projects" -> ProjectFromJSON(value)

MappingFromJSON(field, resolver, object) ==
  [i \in 1..Len(object.entries) |->
     Member(object.entries[i].key,
            EntityFromJSON(field, resolver, object.entries[i].value))]

(* the first pass of fromJSON: the five mappings *)
Construct(resolver, parsed) ==
  [formatVersion |-> Get(parsed, "formatVersion").value,
   sources |-> MappingFromJSON("sources", resolver, Get(parsed, "sources")),
   patches |-> MappingFromJSON("patches", resolver, Get(parsed, "patches")),
   mozconfigs |-> MappingFromJSON("mozconfigs", resolver, Get(parsed, "mozconfigs")),
   integrations |-> MappingFromJSON("integrations", resolver, Get(parsed, "integrations")),
   projects |-> MappingFromJSON("projects", resolver, Get(parsed, "projects"))]

Range(list) == {list[i] : i \in 1..Len(list)}

(* the second pass of fromJSON: TRUE when every cross-reference resolves *)
ReferencesResolve(config) ==
  /\ \A i \in 1..Len(config.integrations) :
       /\ Range(config.integrations[i].value.sourceKeys) \subseteq KeysOf(config.sources)
       /\ Range(config.integrations[i].value.patchKeys) \subseteq KeysOf(config.patches)
  /\ \A i \in 1..Len(config.projects) :
       /\ config.projects[i].value.integrationKey \in KeysOf(config.integrations)
       /\ config.projects[i].value.mozconfigKey \in KeysOf(config.mozconfigs)
       /\ config.projects[i].value.appDirKey \in KeysOf(config.sources)

NoConfig ==
  [formatVersion |-> "", sources |-> <<>>, patches |-> <<>>, mozconfigs |-> <<>>,
   integrations |-> <<>>, projects |-> <<>>]

EntityToJSON(field, entity) ==
  CASE field = "sources" -> StringSetToJSON(entity)
    [] field \in {"patches", "mozconfigs"} -> FileToJSON(entity)
    [] field = "integrations" -> IntegrationToJSON(entity)
    [] field = "projects" -> ProjectToJSON(entity)

MappingToJSON(field, mapping) ==
  Obj([i \in 1..Len(mapping) |->
         Member(mapping[i].key, EntityToJSON(field, mapping[i].value))])

(* toJSON listing each mapping backwards *)
RECURSIVE Reversed(_)
Reversed(list) ==
  IF list = <<>> THEN <<>> ELSE Append(Reversed(Tail(list)), Head(list))

ToJSONBackwards(config) ==
  Obj(<<Member("formatVersion", Str(config.formatVersion)),
        Member("sources", MappingToJSON("sources", Reversed(config.sources))),
        Member("patches", MappingToJSON("patches", Reversed(config.patches))),
        Member("mozconfigs", MappingToJSON("mozconfigs", Reversed(config.mozconfigs))),
        Member("integrations", MappingToJSON("integrations", Reversed(config.integrations))),
        Member("projects", MappingToJSON("projects", Reversed(config.projects)))>>)

(* config.toJSON() *)
ToJSON(config) ==
  Obj(<<Member("formatVersion", Str(config.formatVersion)),
        Member("sources", MappingToJSON("sources", config.sources)),
        Member("patches", MappingToJSON("patches", config.patches)),
        Member("mozconfigs", MappingToJSON("mozconfigs", config.mozconfigs)),
        Member("integrations", MappingToJSON("integrations", config.integrations)),
        Member("projects", MappingToJSON("projects", config.projects))>>)

(* ---- FSQueue ---- *)

(* The state after the field initialisers and the constructor have run. *)
Init ==
  /\ requiredToCallOnce = {WriteConfigurationMarker}
  /\ symbolCount = 0
  /\ tasks = <<>>
  /\ started = FALSE
  /\ hasCommitted = FALSE
  /\ enableWarnings = TRUE
  /\ callerResolver \in [base : {BaseDirectory}, relative : InitialRelatives]
  /\ pathResolver = Clone(callerResolver)
  /\ document \in [formatVersion : FormatVersions]
  /\ commits = <<>>
  /\ executions = <<>>
  /\ warnings = {}
  /\ suspended = 0
  /\ lastCall = Result("constructor", "ok")
  /\ jsonValue = Blank
  /\ jsonStep = "unused"
  /\ jsonConfig = NoConfig
  /\ jsonOutput = NoValue

(* #assertNotStarted with its check left out *)
AssertNotStartedNever == FALSE

(* #assertNotStarted: TRUE when it throws *)
AssertNotStartedThrows == started

(* addRequirement(label): Symbol(label) is a new value on every call *)
AddRequirement(label) ==
  /\ symbolCount < MaxRequirements
  /\ symbolCount' = symbolCount + 1
  /\ requiredToCallOnce' = requiredToCallOnce \cup {SymbolFor(label, symbolCount + 1)}
  /\ lastCall' = Result("addRequirement", "ok")
  /\ UNCHANGED <<tasks, started, hasCommitted, enableWarnings, pathResolver,
                 callerResolver, document, commits, executions, warnings, suspended>>
  /\ UNCHANGED jsonVars

(* pendingOperations(): the descriptions, in insertion order *)
PendingOperations == [i \in 1..Len(tasks) |-> tasks[i].description]

PendingOperationsCall ==
  /\ lastCall' = Result("pendingOperations", "ok")
  /\ UNCHANGED <<requiredToCallOnce, symbolCount, tasks, started, hasCommitted,
                 enableWarnings, pathResolver, callerResolver, document, commits,
                 executions, warnings, suspended>>
  /\ UNCHANGED jsonVars

(* hasCommitted() *)
HasCommittedCall ==
  /\ lastCall' = Result("hasCommitted", IF hasCommitted THEN "true" ELSE "false")
  /\ UNCHANGED <<requiredToCallOnce, symbolCount, tasks, started, hasCommitted,
                 enableWarnings, pathResolver, callerResolver, document, commits,
                 executions, warnings, suspended>>
  /\ UNCHANGED jsonVars

(* writeConfiguration without the delete of line 66 *)
RequirementsKeptAfterWrite == requiredToCallOnce

(* the set after line 66 of writeConfiguration *)
RequirementsAfterWrite == requiredToCallOnce \ {WriteConfigurationMarker}

(* the entry writeConfiguration registers: the override path, the captured *)
(* contents, the description and the context                               *)
ConfigurationTask(relativePath) ==
  [overridePath |-> relativePath,
   contents |-> Stringify(document),
   description |-> [text |-> "write configuration to ",
                    path |-> PathResolve(GetPath(pathResolver, TRUE), relativePath)],
   context |-> [command |-> "writeConfiguration",
                relativePath |-> relativePath,
                contents |-> Stringify(document)]]

(* #appendResolverTask calling the task instead of only storing it *)
AppendResolverTaskEager(task) ==
  /\ tasks' = Append(tasks, task)
  /\ executions' = Append(executions,
                          [task |-> Len(tasks) + 1, commit |-> 0,
                           target |-> PathResolve(pathResolver.base, task.overridePath),
                           contents |-> task.contents,
                           state |-> "inprogress",
                           warningsEnabledAtFailure |-> FALSE])
  /\ UNCHANGED pathResolver

(* #appendResolverTask after #assertNotStarted has passed *)
AppendResolverTask(task) ==
  /\ tasks' = Append(tasks, task)
  /\ UNCHANGED <<executions, pathResolver>>

(* writeConfiguration(config, relativePath), config being the caller's document *)
WriteConfiguration(relativePath) ==
  /\ IF WriteConfigurationMarker \notin requiredToCallOnce
     THEN /\ lastCall' = Result("writeConfiguration", AlreadyRequestedError)
          /\ UNCHANGED <<requiredToCallOnce, tasks, executions, pathResolver>>
     ELSE /\ requiredToCallOnce' = RequirementsAfterWrite
          /\ IF AssertNotStartedThrows
             THEN /\ lastCall' = Result("writeConfiguration", AlreadyStartedError)
                  /\ UNCHANGED <<tasks, executions, pathResolver>>
             ELSE /\ lastCall' = Result("writeConfiguration", "ok")
                  /\ AppendResolverTask(ConfigurationTask(relativePath))
  /\ UNCHANGED <<symbolCount, started, hasCommitted, enableWarnings, callerResolver,
                 document, commits, warnings, suspended>>
  /\ UNCHANGED jsonVars

(* the task serialising the caller's object when it runs *)
ContentsSerialisedAtCommit(t) == Stringify(document)

(* the contents the task of tasks[t] hands to fs.writeFile: the constant   *)
(* `contents` its closure captured at line 65                              *)
WrittenContents(t) == tasks[t].contents

(* An async arrow function never throws to its caller: whatever fails in   *)
(* its body comes back as a rejected promise.                              *)
TaskThrowsSynchronously == FALSE

(* #withTemporaryPath without its finally block *)
OverridePathKept(currentPath, overridePath) == overridePath

(* the relative segment #withTemporaryPath leaves behind (finally, line 127) *)
RestoredPath(currentPath, overridePath) == currentPath

(* #withTemporaryPath(overridePath, task, context), called for tasks[t] by *)
(* commit call c: the resolver it leaves, the task body it started, which  *)
(* has run up to its await of fs.writeFile, and the warnings it made       *)
WithTemporaryPath(t, c) ==
  LET currentPath == GetPath(pathResolver, FALSE)
      during == SetPath(pathResolver, FALSE, tasks[t].overridePath)
  IN [resolver |-> SetPath(during, FALSE, RestoredPath(currentPath, tasks[t].overridePath)),
      execution |-> [task |-> t, commit |-> c,
                     target |-> GetPath(during, TRUE),
                     contents |-> WrittenContents(t),
                     state |-> "inprogress",
                     warningsEnabledAtFailure |-> FALSE],
      warnings |-> IF TaskThrowsSynchronously /\ enableWarnings
                   THEN warnings \cup {Warning("context", <<>>, tasks[t].context)}
                   ELSE warnings]

(* commit without its requirement check *)
RequirementsNeverOutstanding == FALSE

(* TRUE when commit's requirement check (line 136) sees something outstanding *)
RequirementsOutstanding == requiredToCallOnce # {}

(* commit without the assignment of line 143 *)
StartedLeftAlone == started

(* what commit assigns to #started at line 143 *)
StartedOnCommit == TRUE

(* commit assigning #started before its checks *)
StartedBeforeChecks == TRUE

(* #started after commit has thrown from its checks, which come before    *)
(* line 143                                                               *)
StartedAfterRefusal == started

(* commit swallowing the rejection of a task *)
AwaitNeverThrows(execution) == FALSE

(* TRUE when `await task()` throws into commit *)
AwaitThrows(execution) == execution.state = "rejected"

(* Array.prototype.join applies ToString to every element, and ToString    *)
(* of a Symbol throws a TypeError.                                         *)
JoinThrows == \E r \in requiredToCallOnce : r.kind = "symbol"

RECURSIVE ValuesOf(_)
ValuesOf(S) ==
  IF S = {} THEN <<>>
  ELSE LET r == CHOOSE x \in S : \A y \in S : x.id <= y.id
       IN <<r.label>> \o ValuesOf(S \ {r})

(* how the checks at the top of commit() end when #enableWarnings has the *)
(* value `enabled`                                                        *)
CommitChecksWhen(enabled) ==
  IF AssertNotStartedThrows THEN AlreadyStartedError
  ELSE IF RequirementsOutstanding
       THEN IF enabled /\ JoinThrows THEN SymbolToStringError
            ELSE RequiredTasksError
       ELSE "ok"

(* how the checks at the top of commit() end *)
CommitChecks == CommitChecksWhen(enableWarnings)

(* the while loop of commit call c, entered with `queue` left to run *)
CommitLoop(c, queue, frames) ==
  IF queue = <<>>
  THEN /\ hasCommitted' = TRUE
       /\ commits' = [frames EXCEPT ![c].state = "fulfilled"]
       /\ UNCHANGED <<executions, pathResolver, warnings>>
  ELSE LET run == WithTemporaryPath(Head(queue), c)
       IN /\ executions' = Append(executions, run.execution)
          /\ pathResolver' = run.resolver
          /\ warnings' = run.warnings
          /\ commits' = [frames EXCEPT ![c].queue = Tail(queue),
                                       ![c].awaiting = Len(executions) + 1]
          /\ UNCHANGED hasCommitted

(* commit(), up to its first await *)
Commit ==
  /\ Len(commits) < MaxCommits
  /\ lastCall' = Result("commit", CommitChecks)
  /\ IF CommitChecks = "ok"
     THEN /\ started' = StartedOnCommit
          /\ CommitLoop(Len(commits) + 1, [i \in 1..Len(tasks) |-> i],
                        Append(commits, [queue |-> <<>>, awaiting |-> 0,
                                         state |-> "awaiting", error |-> ""]))
     ELSE /\ warnings' = IF CommitChecks = RequiredTasksError /\ enableWarnings
                         THEN warnings \cup {Warning("requirements",
                                                     ValuesOf(requiredToCallOnce),
                                                     NoContext)}
                         ELSE warnings
          /\ started' = StartedAfterRefusal
          /\ UNCHANGED <<hasCommitted, commits, executions, pathResolver>>
  /\ UNCHANGED <<requiredToCallOnce, symbolCount, tasks, enableWarnings,
                 callerResolver, document, suspended>>
  /\ UNCHANGED jsonVars

(* fs.writeFile settles and the task body that awaited it ends: the        *)
(* promise #withTemporaryPath returned is fulfilled or rejected            *)
TaskSettles(e, ok) ==
  /\ executions[e].state = "inprogress"
  /\ executions' = [executions EXCEPT
                      ![e].state = IF ok THEN "fulfilled" ELSE "rejected",
                      ![e].warningsEnabledAtFailure = (~ok /\ enableWarnings)]
  /\ lastCall' = Result("writeFile", IF ok THEN "ok" ELSE WriteFileError)
  /\ UNCHANGED <<requiredToCallOnce, symbolCount, tasks, started, hasCommitted,
                 enableWarnings, pathResolver, callerResolver, document, commits,
                 warnings, suspended>>
  /\ UNCHANGED jsonVars

(* commit call c continues after its `await`: the rejection is thrown to   *)
(* commit's caller, or the loop goes round                                 *)
CommitResume(c) ==
  /\ commits[c].state = "awaiting"
  /\ executions[commits[c].awaiting].state # "inprogress"
  /\ IF AwaitThrows(executions[commits[c].awaiting])
     THEN /\ commits' = [commits EXCEPT ![c].state = "rejected",
                                        ![c].error = WriteFileError]
          /\ lastCall' = Result("commit resumed", WriteFileError)
          /\ UNCHANGED <<hasCommitted, executions, pathResolver, warnings>>
     ELSE /\ CommitLoop(c, commits[c].queue, commits)
          /\ lastCall' = Result("commit resumed", "ok")
  /\ UNCHANGED <<requiredToCallOnce, symbolCount, tasks, started, enableWarnings,
                 callerResolver, document, suspended>>
  /\ UNCHANGED jsonVars

(* suspendWarnings(callback), up to its await of callback() *)
SuspendWarningsBegin ==
  /\ suspended < MaxSuspend
  /\ enableWarnings' = FALSE
  /\ suspended' = suspended + 1
  /\ lastCall' = Result("suspendWarnings", "ok")
  /\ UNCHANGED <<requiredToCallOnce, symbolCount, tasks, started, hasCommitted,
                 pathResolver, callerResolver, document, commits, executions,
                 warnings>>
  /\ UNCHANGED jsonVars

(* a suspendWarnings callback has settled: the finally block runs *)
SuspendWarningsEnd(ok) ==
  /\ suspended > 0
  /\ enableWarnings' = TRUE
  /\ suspended' = suspended - 1
  /\ lastCall' = Result("suspendWarnings ended", IF ok THEN "ok" ELSE "callback rejected")
  /\ UNCHANGED <<requiredToCallOnce, symbolCount, tasks, started, hasCommitted,
                 pathResolver, callerResolver, document, commits, executions,
                 warnings>>
  /\ UNCHANGED jsonVars

(* ---- the callers ---- *)

(* the caller changes its configuration object in place *)
MutateDocument(version) ==
  /\ version # document.formatVersion
  /\ document' = [document EXCEPT !.formatVersion = version]
  /\ lastCall' = Result("mutate document", "ok")
  /\ UNCHANGED <<requiredToCallOnce, symbolCount, tasks, started, hasCommitted,
                 enableWarnings, pathResolver, callerResolver, commits, executions,
                 warnings, suspended>>
  /\ UNCHANGED jsonVars

(* the constructor keeping the resolver it was given *)
SharesCallerResolverAlways == TRUE

(* TRUE when #pathResolver is the very object the caller holds: the        *)
(* constructor stores pathResolver.clone(), another object                 *)
SharesCallerResolver == FALSE

(* the values the caller may give to a segment of its resolver *)
CallerPaths(useAbsolute) ==
  IF useAbsolute THEN CallerBaseDirectories ELSE InitialRelatives

(* the caller calls setPath(useAbsolute, value) on the resolver it passed  *)
(* to the constructor                                                      *)
CallerSetPath(useAbsolute, value) ==
  /\ value # (IF useAbsolute THEN callerResolver.base ELSE callerResolver.relative)
  /\ callerResolver' = SetPath(callerResolver, useAbsolute, value)
  /\ pathResolver' = IF SharesCallerResolver
                     THEN SetPath(pathResolver, useAbsolute, value)
                     ELSE pathResolver
  /\ lastCall' = Result("caller setPath", "ok")
  /\ UNCHANGED <<requiredToCallOnce, symbolCount, tasks, started, hasCommitted,
                 enableWarnings, document, commits, executions,
                 warnings, suspended>>
  /\ UNCHANGED jsonVars

Next ==
  \/ \E label \in Labels : AddRequirement(label)
  \/ PendingOperationsCall
  \/ HasCommittedCall
  \/ \E relativePath \in RelativePaths : WriteConfiguration(relativePath)
  \/ Commit
  \/ \E e \in 1..Len(executions), ok \in BOOLEAN : TaskSettles(e, ok)
  \/ \E c \in 1..Len(commits) : CommitResume(c)
  \/ SuspendWarningsBegin
  \/ \E ok \in BOOLEAN : SuspendWarningsEnd(ok)
  \/ \E version \in FormatVersions : MutateDocument(version)
  \/ \E useAbsolute \in BOOLEAN :
       \E value \in CallerPaths(useAbsolute) : CallerSetPath(useAbsolute, value)

Spec == Init /\ [][Next]_vars

(* ---- the documents given to ConfigFileFormat ---- *)

SourceNames == {"egg", "yolk"}
PatchNames == {"fix"}
MozconfigNames == {"debug"}
IntegrationNames == {"central"}
ProjectNames == {"p1"}

(* the lists of at most n different elements of a pool *)
OrderedSubsets(pool, n) ==
  {list \in UNION {[1..k -> pool] : k \in 0..n} :
     \A i, j \in 1..Len(list) : i # j => list[i] # list[j]}

(* the objects with at most MaxEntries keys of a pool, in every order *)
Objects(pool, values) ==
  UNION {{Obj([i \in 1..Len(keys) |-> Member(keys[i], chosen[i])]) :
            chosen \in [1..Len(keys) -> values]} :
         keys \in OrderedSubsets(pool, MaxEntries)}

SourceValues ==
  {Arr(<<Str("sources/p")>>), Arr(<<Str("sources/p"), Str("sources/p")>>),
   Arr(<<Str("sources/q"), Str("sources/p")>>)}

IntegrationValues ==
  {Obj(<<Member("vanillaTag", Str("central")),
         Member("sourceKeys", sourceKeys),
         Member("patchKeys", patchKeys),
         Member("targetDirectory", Str("../compiles/central"))>>) :
     sourceKeys \in {Arr(<<>>), Arr(<<Str("egg")>>), Arr(<<Str("yolk"), Str("egg")>>)},
     patchKeys \in {Arr(<<>>), Arr(<<Str("fix")>>)}}

ProjectValues ==
  {Obj(<<Member("integrationKey", Str("central")),
         Member("mozconfigKey", Str("debug")),
         Member("appDirKey", Str(appDirKey))>>) :
     appDirKey \in {"egg", "unknownEgg"}}

Documents ==
  {Obj(<<Member("formatVersion", Str(FormatVersion)),
         Member("sources", sources),
         Member("patches", patches),
         Member("mozconfigs", mozconfigs),
         Member("integrations", integrations),
         Member("projects", projects)>>) :
     sources \in Objects(SourceNames, SourceValues),
     patches \in Objects(PatchNames, {Str("patches/fix.diff")}),
     mozconfigs \in Objects(MozconfigNames, {Str("cleanroom/mozconfigs/debug.mozconfig")}),
     integrations \in Objects(IntegrationNames, IntegrationValues),
     projects \in Objects(ProjectNames, ProjectValues)}

(* a document without one of its fields *)
Without(object, field) ==
  Obj(SelectSeq(object.entries, LAMBDA member : member.key # field))

(* the values the tests give to isJSON: a document, a document without one *)
(* field, a document inside an array                                       *)
Shapes == {"whole", "in array"} \cup TopLevelFields

Shaped(object, shape) ==
  CASE shape = "whole" -> object
    [] shape = "in array" -> Arr(<<object>>)
    [] OTHER -> Without(object, shape)

(* ---- the callers of ConfigFileFormat ---- *)

JSONInit ==
  /\ requiredToCallOnce = {WriteConfigurationMarker}
  /\ symbolCount = 0
  /\ tasks = <<>>
  /\ started = FALSE
  /\ hasCommitted = FALSE
  /\ enableWarnings = TRUE
  /\ callerResolver = [base |-> BaseDirectory, relative |-> <<>>]
  /\ pathResolver = Clone(callerResolver)
  /\ document = [formatVersion |-> FormatVersion]
  /\ commits = <<>>
  /\ executions = <<>>
  /\ warnings = {}
  /\ suspended = 0
  /\ lastCall = Result("constructor", "ok")
  /\ jsonValue \in {Shaped(object, shape) : object \in Documents, shape \in Shapes}
  /\ jsonStep = "given"
  /\ jsonConfig = NoConfig
  /\ jsonOutput = NoValue

(* the caller asks ConfigFileFormat.isJSON(jsonValue) *)
IsJSONCall ==
  /\ jsonStep = "given"
  /\ jsonStep' = IF IsJSON(jsonValue) THEN "accepted" ELSE "refused"
  /\ UNCHANGED <<jsonValue, jsonConfig, jsonOutput, queueVars>>

(* ConfigFileFormat.fromJSON(pathResolver, jsonValue), which callers call  *)
(* only with a value isJSON has accepted: construct, then validate         *)
FromJSONCall ==
  /\ jsonStep = "accepted"
  /\ LET config == Construct(callerResolver, jsonValue)
     IN IF ReferencesResolve(config)
        THEN jsonStep' = "parsed" /\ jsonConfig' = config
        ELSE jsonStep' = "ReferentialIntegrityError" /\ UNCHANGED jsonConfig
  /\ UNCHANGED <<jsonValue, jsonOutput, queueVars>>

(* jsonConfig.toJSON() *)
ToJSONCall ==
  /\ jsonStep = "parsed"
  /\ jsonOutput' = ToJSON(jsonConfig)
  /\ jsonStep' = "serialized"
  /\ UNCHANGED <<jsonValue, jsonConfig, queueVars>>

JSONNext ==
  \/ IsJSONCall
  \/ FromJSONCall
  \/ ToJSONCall

JSONSpec == JSONInit /\ [][JSONNext]_vars

(* ---- the properties ---- *)

InProgress == {e \in 1..Len(executions) : executions[e].state = "inprogress"}

Rejected == {e \in 1..Len(executions) : executions[e].state = "rejected"}

(* C1: in every state with a requirement outstanding, a commit() call fails *)
(* with "You have required tasks to execute!" and starts no task.           *)
C1_CommitRefusesWithRequiredTasks ==
  [][requiredToCallOnce # {} /\ lastCall'.op = "commit"
       => lastCall'.outcome = RequiredTasksError /\ executions' = executions]_vars

(* C2: no task body has been started unless a commit() call has passed its  *)
(* checks; every started task body belongs to such a call.                  *)
C2_NoTaskBeforeCommit ==
  /\ (~started \/ commits = <<>>) => executions = <<>>
  /\ \A e \in 1..Len(executions) : executions[e].commit \in 1..Len(commits)

C2_Witness ==
  /\ lastCall.op = "commit"
  /\ lastCall.outcome # "ok"
  /\ tasks # <<>>
  /\ suspended > 0
  /\ executions = <<>>

(* C3: once commit() has started running tasks, every further commit() call *)
(* fails with "I have already started running tasks!" and starts nothing,   *)
(* and no task is executed twice.                                           *)
C3_CommitOnlyOnce ==
  /\ [](\A i, j \in 1..Len(executions) :
          executions[i].task = executions[j].task => i = j)
  /\ [][started /\ lastCall'.op = "commit"
          => lastCall'.outcome = AlreadyStartedError /\ executions' = executions]_vars

C3_Witness ==
  /\ lastCall = Result("commit", AlreadyStartedError)
  /\ InProgress # {}
  /\ \E c \in 1..Len(commits) : commits[c].state = "awaiting"

(* C4: after a successful writeConfiguration, every later writeConfiguration *)
(* call fails with "You've already requested to write the configuration!"    *)
(* and leaves the task list and the outstanding requirements as they were.   *)
C4_WriteConfigurationOnce ==
  [][tasks # <<>> /\ lastCall'.op = "writeConfiguration"
       => /\ lastCall'.outcome = AlreadyRequestedError
          /\ tasks' = tasks
          /\ requiredToCallOnce' = requiredToCallOnce]_vars

C4_Witness ==
  /\ lastCall = Result("writeConfiguration", AlreadyRequestedError)
  /\ Len(tasks) = 1
  /\ started

C6_CommittedOnlyAfterSuccess ==
  /\ [](hasCommitted =>
          /\ started
          /\ \A t \in 1..Len(tasks) :
               \E e \in 1..Len(executions) :
                 executions[e].task = t /\ executions[e].state = "fulfilled"
          /\ \A e \in 1..Len(executions) : executions[e].state = "fulfilled"
          /\ commits # <<>>
          /\ \A c \in 1..Len(commits) : commits[c].state = "fulfilled")
  /\ [][~started /\ started' => requiredToCallOnce = {}]_vars

C6_Witness ==
  /\ hasCommitted
  /\ lastCall = Result("hasCommitted", "true")
  /\ Len(executions) = 1

(* C7: after a task has failed, it is the last task body ever started,      *)
(* hasCommitted() stays false, the commit() call that awaited it ends with  *)
(* the task's failure, and every later commit() call fails with             *)
(* "I have already started running tasks!".                                 *)
C7_TaskFailureIsFinal ==
  /\ [](\A e \in Rejected :
          /\ started
          /\ ~hasCommitted
          /\ e = Len(executions)
          /\ commits[executions[e].commit].awaiting = e
          /\ commits[executions[e].commit].state \in {"awaiting", "rejected"})
  /\ [](\A c \in 1..Len(commits) :
          commits[c].state = "rejected"
            => commits[c].error = WriteFileError /\ commits[c].awaiting \in Rejected)
  /\ [][Rejected # {} /\ lastCall'.op = "commit"
          => /\ lastCall'.outcome = AlreadyStartedError
             /\ executions' = executions
             /\ hasCommitted' = hasCommitted]_vars
  /\ [][\A e \in Rejected : e \in 1..Len(executions') /\ executions'[e] = executions[e]]_vars

C7_Witness ==
  /\ Rejected # {}
  /\ \E c \in 1..Len(commits) : commits[c].state = "rejected"
  /\ lastCall = Result("commit", AlreadyStartedError)

(* C8: while a task body is in progress, the relative segment of the        *)
(* queue's resolver is the override path the task was registered with.      *)
C8_OverrideCoversWholeTask ==
  \A e \in InProgress :
    GetPath(pathResolver, FALSE) = tasks[executions[e].task].overridePath

(* C9: no step of the queue, whether it starts a task or ends the commit,   *)
(* leaves the relative segment of the queue's resolver different from what  *)
(* it was before the step.                                                  *)
C9_OverrideNeverLeaks ==
  [][GetPath(pathResolver', FALSE) = GetPath(pathResolver, FALSE)]_vars

C9_Witness ==
  /\ \E c \in 1..Len(commits) : commits[c].state = "rejected"
  /\ \A t \in 1..Len(tasks) : tasks[t].overridePath # GetPath(pathResolver, FALSE)
  /\ lastCall.op = "commit resumed"

(* C10: when a commit() call has ended with the failure of a task that      *)
(* failed while warnings were enabled, the task's context has been warned.  *)
C10_FailureWarnsContext ==
  \A c \in 1..Len(commits) :
    (commits[c].state = "rejected"
       /\ executions[commits[c].awaiting].warningsEnabledAtFailure)
      => Warning("context", <<>>, tasks[executions[commits[c].awaiting].task].context)
           \in warnings

(* C11: the contents handed to fs.writeFile are the serialisation of the    *)
(* document as it was in the state where writeConfiguration was called,     *)
(* whatever the document has become since.                                  *)
C11_WritesCapturedContents ==
  /\ [][lastCall' = Result("writeConfiguration", "ok")
          => /\ Len(tasks') = Len(tasks) + 1
             /\ tasks'[Len(tasks')].contents = Stringify(document)]_vars
  /\ [][\A t \in 1..Len(tasks) : t \in 1..Len(tasks') /\ tasks'[t] = tasks[t]]_vars
  /\ [](\A e \in 1..Len(executions) :
          executions[e].contents = tasks[executions[e].task].contents)

C11_Witness ==
  /\ \E e \in 1..Len(executions) :
       /\ executions[e].state = "fulfilled"
       /\ executions[e].contents # Stringify(document)
  /\ hasCommitted

(* C12: in every state, commit() ends its checks the same way whether       *)
(* warnings are enabled or suspended: it passes in both cases, or fails in  *)
(* both with the same error.                                                *)
C12_SuspensionKeepsOutcome ==
  CommitChecksWhen(TRUE) = CommitChecksWhen(FALSE)

(* C13: once commit() has started, an addRequirement call is rejected and   *)
(* leaves the outstanding requirements alone, so a queue that has committed *)
(* has no outstanding requirement.                                          *)
C13_AddRequirementOnlyWhilePending ==
  /\ [][started /\ lastCall'.op = "addRequirement"
          => /\ lastCall'.outcome # "ok"
             /\ requiredToCallOnce' = requiredToCallOnce]_vars
  /\ [](hasCommitted => requiredToCallOnce = {})

(* C14: a setPath on the caller's resolver leaves the queue's resolver as   *)
(* it was, and every task writes below the base directory the queue was     *)
(* constructed with, at the path the task was registered with.              *)
C14_QueueResolverIsIndependent ==
  /\ [][lastCall'.op = "caller setPath" => pathResolver' = pathResolver]_vars
  /\ [](pathResolver.base = BaseDirectory)
  /\ [](\A e \in 1..Len(executions) :
          executions[e].target
            = PathResolve(BaseDirectory, tasks[executions[e].task].overridePath))

C14_Witness ==
  /\ callerResolver.base # pathResolver.base
  /\ callerResolver.relative # pathResolver.relative
  /\ InProgress # {}
  /\ lastCall.op = "caller setPath"

(* TRUE when no string occurs twice in the array *)
NoDuplicates(array) ==
  \A i, j \in 1..Len(array.items) : array.items[i] = array.items[j] => i = j

(* TRUE for a document accepted by isJSON in which every key an integration *)
(* or a project names is a key of the mapping it refers to, and no list of  *)
(* sources repeats an entry                                                 *)
Sound(value) ==
  LET sources == Get(value, "sources").entries
      patches == Get(value, "patches").entries
      mozconfigs == Get(value, "mozconfigs").entries
      integrations == Get(value, "integrations").entries
      projects == Get(value, "projects").entries
  IN /\ \A i \in 1..Len(sources) : NoDuplicates(sources[i].value)
     /\ \A i \in 1..Len(integrations) :
          /\ \A k \in Range(Get(integrations[i].value, "sourceKeys").items) :
               k.value \in KeysOf(sources)
          /\ \A k \in Range(Get(integrations[i].value, "patchKeys").items) :
               k.value \in KeysOf(patches)
     /\ \A i \in 1..Len(projects) :
          /\ Get(projects[i].value, "integrationKey").value \in KeysOf(integrations)
          /\ Get(projects[i].value, "mozconfigKey").value \in KeysOf(mozconfigs)
          /\ Get(projects[i].value, "appDirKey").value \in KeysOf(sources)

JSONDone == jsonStep \in {"refused", "ReferentialIntegrityError", "serialized"}

C16_IsJSONNeedsEveryField ==
  /\ jsonStep \in {"unused", "given", "refused", "accepted", "parsed",
                   "ReferentialIntegrityError", "serialized"}
  /\ jsonStep \notin {"unused", "given", "refused"}
       => /\ jsonValue.type = "object"
          /\ TopLevelFields \subseteq KeysOf(jsonValue.entries)

C16_Witness ==
  /\ jsonStep = "refused"
  /\ jsonValue.type = "object"
  /\ KeysOf(jsonValue.entries) = TopLevelFields \ {"projects"}
  /\ Len(Get(jsonValue, "sources").entries) = 2

(* C17: the description of a task that commit() has started is not in the   *)
(* list pendingOperations() returns, and after a successful commit that     *)
(* list is empty.                                                           *)
C17_PendingOperationsAreNotStarted ==
  /\ \A e \in 1..Len(executions) :
       tasks[executions[e].task].description \notin Range(PendingOperations)
  /\ hasCommitted => PendingOperations = <<>>

(* C18: while a suspendWarnings callback is in progress, warnings are       *)
(* disabled.                                                                *)
C18_SuspendedWhileCallbackRuns ==
  suspended > 0 => ~enableWarnings

(* C19: the path in the description of the configuration task is the path   *)
(* the task hands to fs.writeFile.                                          *)
C19_DescriptionNamesWrittenPath ==
  \A e \in 1..Len(executions) :
    executions[e].target = tasks[executions[e].task].description.path

(* C20: a commit() refused for outstanding requirements changes nothing of  *)
(* the queue; before commit has started writeConfiguration is accepted      *)
(* while its marker is outstanding, and a commit() with nothing outstanding *)
(* passes its checks and starts.                                            *)
C20_RefusedCommitLeavesQueuePending ==
  /\ [][(lastCall'.op = "commit"
           /\ lastCall'.outcome \in {RequiredTasksError, SymbolToStringError})
          => /\ ~started' /\ ~hasCommitted'
             /\ tasks' = tasks
             /\ requiredToCallOnce' = requiredToCallOnce
             /\ commits' = commits
             /\ executions' = executions
             /\ pathResolver' = pathResolver]_vars
  /\ [][(~started /\ WriteConfigurationMarker \in requiredToCallOnce
           /\ lastCall'.op = "writeConfiguration")
          => /\ lastCall'.outcome = "ok"
             /\ requiredToCallOnce' = requiredToCallOnce \ {WriteConfigurationMarker}
             /\ Len(tasks') = Len(tasks) + 1]_vars
  /\ [][(~started /\ requiredToCallOnce = {} /\ lastCall'.op = "commit")
          => lastCall'.outcome = "ok" /\ started' /\ Len(executions') = 1]_vars

C20_Witness ==
  /\ Warning("requirements", <<"writeConfiguration">>, NoContext) \in warnings
  /\ hasCommitted
  /\ symbolCount = 0
  /\ Len(executions) = 1

Tokens == {r \in requiredToCallOnce : r.kind = "symbol"}

C22_OneTaskIffMarkerConsumed ==
  /\ Len(tasks) = (IF WriteConfigurationMarker \in requiredToCallOnce THEN 0 ELSE 1)
  /\ \A t \in 1..Len(tasks) : tasks[t].context.command = "writeConfiguration"
  /\ Len(PendingOperations) <= 1
  /\ hasCommitted
       => /\ Len(tasks) = 1
          /\ Cardinality({e \in 1..Len(executions) : executions[e].task = 1}) = 1
          /\ Len(executions) = 1
          /\ executions[1].state = "fulfilled"

C22_Witness ==
  /\ hasCommitted
  /\ Len(tasks) = 1
  /\ lastCall = Result("pendingOperations", "ok")
  /\ Tokens # {}

====
